---- MODULE Spec2Model ----
(***************************************************************************)
(* A model of stockbot: daily_recorder.py (the scheduled scraper that      *)
(* rewrites history_db.csv and jail_list.csv) and the watch-list helpers   *)
(* of dashboard.py (load/save/add/remove on jail_list.csv, and the ROC     *)
(* date parser).                                                           *)
(*                                                                         *)
(* Text is a sequence of one-character strings.  A calendar date is a      *)
(* triple <<year, month, day>>; a datetime is a record [date, tod] whose   *)
(* tod is 0 at exactly midnight and 1 at any later time of that day.       *)
(***************************************************************************)
EXTENDS Integers, Sequences, FiniteSets, Bags, TLC

\* ------------------------------------------------------------------ bounds
\* Number of calendar days the clock can be observed on (from FirstDay on).
NumDays == 3
\* Largest number of rows of one scraped table.
MaxRows == 2
\* Distinct ROC years the parser inputs are drawn from, counted from ROC 113.
NumYears == 2

\* ------------------------------------------------------- calendar arithmetic
IsLeap(y) == (y % 4 = 0) /\ ((y % 100 # 0) \/ (y % 400 = 0))

DaysInMonth(y, m) ==
    IF m = 2 THEN (IF IsLeap(y) THEN 29 ELSE 28)
    ELSE IF m \in {4, 6, 9, 11} THEN 30 ELSE 31

\* datetime(year, month, day) raises ValueError unless this holds.
ValidDate(y, m, d) ==
    /\ y \in 1..9999
    /\ m \in 1..12
    /\ d >= 1
    /\ d <= DaysInMonth(y, m)

\* date + timedelta(days=1)
NextDay(dt) ==
    IF dt[3] < DaysInMonth(dt[1], dt[2]) THEN <<dt[1], dt[2], dt[3] + 1>>
    ELSE IF dt[2] < 12 THEN <<dt[1], dt[2] + 1, 1>>
    ELSE <<dt[1] + 1, 1, 1>>

DateLT(a, b) ==
    \/ a[1] < b[1]
    \/ (a[1] = b[1] /\ a[2] < b[2])
    \/ (a[1] = b[1] /\ a[2] = b[2] /\ a[3] < b[3])

\* datetime.__ge__ : a >= b on [date, tod]
DatetimeGE(a, b) ==
    \/ DateLT(b.date, a.date)
    \/ (a.date = b.date /\ a.tod >= b.tod)

RECURSIVE DaysBeforeMonth(_, _)
DaysBeforeMonth(y, m) ==
    IF m <= 1 THEN 0 ELSE DaysBeforeMonth(y, m - 1) + DaysInMonth(y, m - 1)

\* date.toordinal()
Ordinal(dt) ==
    LET y1 == dt[1] - 1
    IN  y1 * 365 + (y1 \div 4) - (y1 \div 100) + (y1 \div 400)
          + DaysBeforeMonth(dt[1], dt[2]) + dt[3]

\* (a - b).days for datetimes: timedelta normalises to days + a non-negative
\* remainder, so the day count is the floor of the difference.
DeltaDays(a, b) ==
    (Ordinal(a.date) - Ordinal(b.date)) - (IF a.tod < b.tod THEN 1 ELSE 0)

\* ------------------------------------------------------------------- text
\* The four CJK characters of the pattern, each one character of a text:
\* ZHI is U+81F3 ("until"), NIAN U+5E74 (year), YUE U+6708 (month),
\* RI U+65E5 (day).
ZHI == "zhi"
NIAN == "nian"
YUE == "yue"
RI == "ri"

DigitChars == <<"0", "1", "2", "3", "4", "5", "6", "7", "8", "9">>

\* str.isdigit on one character
IsDigit(c) == \E i \in 1..10 : DigitChars[i] = c

DigitVal(c) == (CHOOSE i \in 1..10 : DigitChars[i] = c) - 1

\* int(s) for a non-empty digit string
RECURSIVE ToInt(_)
ToInt(s) ==
    IF Len(s) = 0 THEN 0
    ELSE 10 * ToInt(SubSeq(s, 1, Len(s) - 1)) + DigitVal(s[Len(s)])

\* ''.join(filter(str.isdigit, s))
DigitsOf(s) == SelectSeq(s, IsDigit)

\* decimal rendering of n in exactly w characters, zero padded (n < 10^w)
RECURSIVE Pad(_, _)
Pad(n, w) ==
    IF w = 0 THEN <<>> ELSE Pad(n \div 10, w - 1) \o <<DigitChars[(n % 10) + 1]>>

\* str(n) for 0 <= n < 10000
Dec(n) ==
    IF n < 10 THEN Pad(n, 1)
    ELSE IF n < 100 THEN Pad(n, 2)
    ELSE IF n < 1000 THEN Pad(n, 3) ELSE Pad(n, 4)

\* end_date.strftime("%Y-%m-%d")
Strftime(dt) == Pad(dt[1], 4) \o <<"-">> \o Pad(dt[2], 2) \o <<"-">> \o Pad(dt[3], 2)

\* ------------------------------------------------------------- the parser
RocOffset == 1911

NoMatch == [ok |-> FALSE]

\* One or two digits starting at j followed by the terminator t (\d{1,2}t).
\* Greedy matching tries two digits first; the two cases exclude each other.
NumAt(s, j, t) ==
    IF j + 2 <= Len(s) /\ IsDigit(s[j]) /\ IsDigit(s[j + 1]) /\ s[j + 2] = t
        THEN [ok |-> TRUE, val |-> ToInt(SubSeq(s, j, j + 1)), next |-> j + 3]
    ELSE IF j + 1 <= Len(s) /\ IsDigit(s[j]) /\ s[j + 1] = t
        THEN [ok |-> TRUE, val |-> ToInt(SubSeq(s, j, j)), next |-> j + 2]
    ELSE NoMatch

\* The groups of a match whose year starts at i, given the month's match mm
\* and the day's match dd.
Groups(s, i, mm, dd) ==
    IF mm.ok /\ dd.ok
    THEN [ok |-> TRUE, y |-> ToInt(SubSeq(s, i, i + 2)), m |-> mm.val, d |-> dd.val]
    ELSE NoMatch

DayAfter(s, i, mm) ==
    Groups(s, i, mm, IF mm.ok THEN NumAt(s, mm.next, RI) ELSE NoMatch)

\* The pattern anchored at position i.
MatchAt(s, i) ==
    IF /\ i + 4 <= Len(s)
       /\ s[i] = ZHI
       /\ IsDigit(s[i + 1]) /\ IsDigit(s[i + 2]) /\ IsDigit(s[i + 3])
       /\ s[i + 4] = NIAN
    THEN DayAfter(s, i + 1, NumAt(s, i + 5, YUE))
    ELSE NoMatch

\* re.search: the leftmost position at which the pattern matches.
RECURSIVE SearchFrom(_, _)
FirstOf(s, i, mt) == IF mt.ok THEN mt ELSE SearchFrom(s, i + 1)
SearchFrom(s, i) == IF i > Len(s) THEN NoMatch ELSE FirstOf(s, i, MatchAt(s, i))

ReSearch(s) == SearchFrom(s, 1)

None == [some |-> FALSE]

\* GregorianYearOffByOne is GregorianYear with the epoch taken as 1912.
GregorianYearOffByOne(rocYear) == rocYear + RocOffset + 1

\* year = int(match.group(1)) + 1911
GregorianYear(rocYear) == rocYear + RocOffset

\* datetime(year, month, day) at midnight, or None where it raises (the bare
\* except swallows the ValueError).
EndDate(mt) ==
    IF mt.ok /\ ValidDate(GregorianYear(mt.y), mt.m, mt.d)
    THEN [some |-> TRUE,
          dt |-> [date |-> <<GregorianYear(mt.y), mt.m, mt.d>>, tod |-> 0]]
    ELSE None

\* daily_recorder.parse_disposal_date: the end date at midnight, or None.
parse_disposal_date(content) == EndDate(ReSearch(content))

Dash == <<"-">>

\* (end_date.strftime("%Y-%m-%d"), remaining), or ("-", "-")
Countdown(end_date, today) ==
    IF end_date.some
    THEN [some |-> TRUE, text |-> Strftime(end_date.dt.date),
          remaining |-> DeltaDays(end_date.dt, today) + 1]
    ELSE [some |-> FALSE, text |-> Dash, remaining |-> 0]

\* dashboard.parse_disposal_date, with today = datetime.now()
dashboard_parse_disposal_date(content, today) ==
    Countdown(EndDate(ReSearch(content)), today)

\* ------------------------------------------------------------ CSV cells
\* A code is a text.  pandas reads an empty CSV field as NaN even under
\* dtype=str, and to_csv writes NaN back as an empty field (na_rep='').
NaN == <<"nan">>

\* pd.read_csv(..., dtype=str) on one field
ReadCell(c) == IF c = <<>> THEN NaN ELSE c

\* DataFrame.to_csv(index=False) on one value
WriteCell(v) == IF v = NaN THEN <<>> ELSE v

\* The order of list(set(...)) is unspecified, so a file's rows and a list of
\* codes are kept as a bag: what is in it, and how many times.
RECURSIVE Copies(_, _)
Copies(B, S) ==
    IF S = {} THEN 0
    ELSE LET x == CHOOSE x \in S : TRUE IN B[x] + Copies(B, S \ {x})

\* The values of a file's fields as read_csv returns them.
ReadCells(B) ==
    [v \in {ReadCell(c) : c \in DOMAIN B} |->
        Copies(B, {c \in DOMAIN B : ReadCell(c) = v})]

\* The fields to_csv writes for a list of values.
WriteCells(B) ==
    [v \in {WriteCell(c) : c \in DOMAIN B} |->
        Copies(B, {c \in DOMAIN B : WriteCell(c) = v})]

SeqToSet(s) == {s[i] : i \in 1..Len(s)}

\* dashboard.load_jail_list, and daily_recorder's read of JAIL_FILE: an absent
\* file and a file with only the header both load as [].
load_jail_list(file) == ReadCells(file)

\* dashboard.save_jail_list, and daily_recorder's write of JAIL_FILE
save_jail_list(codes) == WriteCells(codes)

\* dashboard.add_to_jail after its load: whether it appends and saves, and the
\* list it then holds.
add_step(current_list, input) ==
    LET code == DigitsOf(input)
    IN  IF code # <<>> /\ ~BagIn(code, current_list)
        THEN [save |-> TRUE, list |-> current_list (+) SetToBag({code})]
        ELSE [save |-> FALSE, list |-> current_list]

\* dashboard.add_to_jail: the file afterwards and the value returned
Saved(file, r) ==
    [file |-> IF r.save THEN save_jail_list(r.list) ELSE file, ret |-> r.save]

add_to_jail(file, input) == Saved(file, add_step(load_jail_list(file), input))

\* new_list = [c for c in current_list if c not in codes_to_remove]
remove_step(current_list, codes_to_remove) ==
    [c \in (DOMAIN current_list) \ codes_to_remove |-> current_list[c]]

\* dashboard.remove_from_jail
remove_from_jail(file, codes_to_remove) ==
    save_jail_list(remove_step(load_jail_list(file), codes_to_remove))

\* ------------------------------------------------------------ the scrape
ATTENTION == "attention"
DISPOSAL == "disposal"

\* What the scraping loop has built so far: all_data, new_jail_codes, and
\* whether an exception has sent control to the except clause.  `seen` is not
\* in the code: it logs, for each disposal row that reached the date check,
\* its code, the parsed end date and whether the row was admitted.
NoRows == [all_data |-> <<>>, new_jail_codes |-> <<>>, raised |-> FALSE, seen |-> <<>>]

Raise(acc) == [acc EXCEPT !.raised = TRUE]

\* if end_dt and end_dt >= datetime.now()
Admit(end_dt, nw) == end_dt.some /\ DatetimeGE(end_dt.dt, nw)

\* Lines 47-51 for one disposal row: the history record, and the code when
\* the row is admitted.
Collect(acc, rec, end_dt, admitted) ==
    [acc EXCEPT
       !.all_data = Append(@, rec),
       !.new_jail_codes = IF admitted THEN Append(@, rec.code) ELSE @,
       !.seen = Append(@, [code |-> rec.code, end_dt |-> end_dt, admitted |-> admitted])]

Decide(acc, rec, end_dt, nw) == Collect(acc, rec, end_dt, Admit(end_dt, nw))

Record(kind, code, nw) == [date |-> Strftime(nw.date), code |-> code, status |-> kind]

\* The body of one iteration of `for _, row in df.iterrows()`.  row.iloc[1]
\* raises IndexError in a table of fewer than 2 columns, row.iloc[5] in one of
\* fewer than 6; both precede the appends.
ProcessRow(kind, row, ncols, acc, nw) ==
    IF ncols < 2 THEN Raise(acc)
    ELSE IF kind = ATTENTION
    THEN [acc EXCEPT !.all_data = Append(@, Record(kind, DigitsOf(row.code), nw))]
    ELSE IF ncols < 6 THEN Raise(acc)
    ELSE Decide(acc, Record(kind, DigitsOf(row.code), nw),
                parse_disposal_date(row.content), nw)

\* The rows of one table, in order, until one raises.
RECURSIVE ScanRows(_, _, _, _, _)
ScanRows(kind, rows, ncols, acc, nw) ==
    IF acc.raised \/ rows = <<>> THEN acc
    ELSE ScanRows(kind, Tail(rows), ncols, ProcessRow(kind, Head(rows), ncols, acc, nw), nw)

\* `for df in dfs`, over the tables whose header carries the page's marker.
RECURSIVE ScanTables(_, _, _, _)
ScanTables(kind, tables, acc, nw) ==
    IF acc.raised \/ tables = <<>> THEN acc
    ELSE ScanTables(kind, Tail(tables),
                    ScanRows(kind, Head(tables).rows, Head(tables).ncols, acc, nw), nw)

\* One page: requests.get and pd.read_html raise when the fetch fails or the
\* page holds no table (doc.ok = FALSE).
ScanDoc(kind, doc, acc, nw) ==
    IF acc.raised THEN acc
    ELSE IF ~doc.ok THEN Raise(acc)
    ELSE ScanTables(kind, doc.tables, acc, nw)

\* The whole try block of update_data.
ScanScrape(B, nw) ==
    ScanDoc(DISPOSAL, B.disp, ScanDoc(ATTENTION, B.att, NoRows, nw), nw)

\* ---------------------------------------------------------- history_db.csv
\* The file is the sequence of its rows; the code field goes through the CSV
\* cell conversions when the old rows are read and written back.
ReadRow(r) == [r EXCEPT !.code = ReadCell(@)]
WriteRow(r) == [r EXCEPT !.code = WriteCell(@)]

ReadRows(s) == [i \in 1..Len(s) |-> ReadRow(s[i])]
WriteRows(s) == [i \in 1..Len(s) |-> WriteRow(s[i])]

\* old_df[old_df["date"] != today_str]; KeepAllRows is the same without the
\* filter.
KeepAllRows(old_df, today_str) == old_df
OtherDays(old_df, today_str) == SelectSeq(old_df, LAMBDA r : r.date # today_str)

\* Step 2 of update_data: the history file afterwards.
HistoryAfter(file, all_data, today_str) ==
    IF all_data # <<>>
    THEN WriteRows(OtherDays(ReadRows(file), today_str) \o all_data)
    ELSE file

\* updated_jail = list(set(existing_jail + new_jail_codes)); MergeToggle is the
\* same with the symmetric difference of the two in place of their union.
MergeToggle(existing_jail, new_jail_codes) ==
    SetToBag((BagToSet(existing_jail) \cup SeqToSet(new_jail_codes))
             \ (BagToSet(existing_jail) \cap SeqToSet(new_jail_codes)))
Merge(existing_jail, new_jail_codes) ==
    SetToBag(BagToSet(existing_jail) \cup SeqToSet(new_jail_codes))

\* Step 3 of update_data: the watch-list file afterwards.
JailAfter(file, new_jail_codes) ==
    save_jail_list(Merge(load_jail_list(file), new_jail_codes))

\* ------------------------------------------------------------------ state
VARIABLES
    now,        \* the calendar date the wall clock shows
    jail,       \* jail_list.csv: the bag of its code fields
    history,    \* history_db.csv: the sequence of its rows
    last,       \* the operation that ran last and what it computed
    release,    \* per watch-list field, the release date (end date + 1 day)
                \* of the disposal row that last admitted it
    scraped,    \* the scrape the last update_data read (kept by SpecLogged)
    dash,       \* a dashboard request in progress: its step and its locals
    rec,        \* a daily_recorder run in progress: its step and its locals
    start,      \* the watch-list file when the two concurrent writers began
    parse       \* a call of the two date parsers: the input and the results

vars == <<now, jail, history, last, release, scraped, dash, rec, start, parse>>

\* --------------------------------------------------------------- inputs
FirstDay == <<2025, 12, 30>>

RECURSIVE DayAt(_)
DayAt(n) == IF n = 0 THEN FirstDay ELSE NextDay(DayAt(n - 1))

Days == {DayAt(n) : n \in 0..(NumDays - 1)}

LastDay == DayAt(NumDays - 1)

\* "zhi<y>nian<m>yue<d>ri": a restriction period ending on ROC y/m/d, the
\* month and day zero padded or not.
RocText(y, m, d, pad) ==
    <<ZHI>> \o Dec(y) \o <<NIAN>>
        \o (IF pad THEN Pad(m, 2) ELSE Dec(m)) \o <<YUE>>
        \o (IF pad THEN Pad(d, 2) ELSE Dec(d)) \o <<RI>>

\* The text before the end date in an announcement: the period's start date,
\* which carries no ZHI.
Lead == <<"1", "1", "4", NIAN, "1", "2", YUE, "1", "8", RI>>

\* The announcement text of the scraped rows: a period ending 2025-12-31.
EndsDec31 == Lead \o RocText(114, 12, 31, TRUE)

AttentionRows == {[code |-> <<"x", "1">>]}

\* A disposal row of security 1, and one whose code cell is missing
\* (str(nan) has no digit).
Listed == [code |-> <<"x", "1">>, content |-> EndsDec31]
Unnamed == [code |-> <<"n", "a", "n">>, content |-> EndsDec31]

DisposalRows == {Listed, Unnamed}

RECURSIVE SeqsUpTo(_, _)
SeqsUpTo(S, n) ==
    IF n = 0 THEN {<<>>}
    ELSE LET shorter == SeqsUpTo(S, n - 1)
         IN  shorter \cup {Append(q, x) : q \in shorter, x \in S}

\* The sequences of at most n rows of S in which no row occurs twice (a page
\* lists a security once).
TablesUpTo(S, n) ==
    {q \in SeqsUpTo(S, n) : \A i, j \in 1..Len(q) : q[i] = q[j] => i = j}

Failed == [ok |-> FALSE, tables |-> <<>>]
Page(tables) == [ok |-> TRUE, tables |-> tables]
Table(ncols, rows) == [ncols |-> ncols, rows |-> rows]

AttentionDocs == {Failed} \cup {Page(<<Table(5, <<r>>)>>) : r \in AttentionRows}

\* The disposal page: not loaded; one table of six columns; or a table of five
\* columns (no content column) ahead of one of six.
DisposalDocs ==
    {Failed}
    \cup {Page(<<Table(6, rs)>>) : rs \in TablesUpTo(DisposalRows, MaxRows)}
    \cup {Page(<<Table(5, <<Listed>>), Table(6, <<Listed>>)>>)}

\* When the attention page fails the disposal page is never fetched, so one
\* disposal page stands for all of them there.
Scrapes ==
    {[att |-> Failed, disp |-> Page(<<Table(6, <<Listed>>)>>)]}
    \cup {[att |-> a, disp |-> d] : a \in AttentionDocs \ {Failed}, d \in DisposalDocs}

NoScrape == [att |-> Failed, disp |-> Failed]

\* What the operator types into the dashboard's "add" box.
AddInputs == {<<"1", "y">>, <<"y">>}

\* ------------------------------------------------- the sequential programs
\* `last` besides the operation: res is the scan's outcome, ret what add_to_jail
\* returned, twice the fields the watch-list would hold were update_data run
\* once more on the same scrape at the same time, and replaced whether rows
\* of the day were taken out of the history.
Idle == [op |-> "init", res |-> NoRows, ret |-> FALSE, twice |-> {}, replaced |-> FALSE]

\* The times of day update_data is run at: during the day; or also at the
\* stroke of midnight.
Daytime == {1}
AnyTime == {0, 1}

DashIdle == [pc |-> "idle", kind |-> "add", input |-> <<>>, sel |-> {},
             list |-> EmptyBag, ret |-> FALSE]
RecIdle == [pc |-> "idle", B |-> NoScrape, tod |-> 0, res |-> NoRows, list |-> EmptyBag]
ParseIdle == [pc |-> "idle", y |-> 0, m |-> 0, d |-> 0, pad |-> FALSE, lead |-> FALSE,
              tod |-> 0, rec |-> None, dash |-> Countdown(None, [date |-> FirstDay, tod |-> 0])]

Quiet ==
    /\ dash = DashIdle
    /\ rec = RecIdle
    /\ start = EmptyBag
    /\ parse = ParseIdle

Init ==
    /\ now = FirstDay
    /\ jail = EmptyBag
    /\ history = <<>>
    /\ last = Idle
    /\ release = <<>>
    /\ scraped = NoScrape
    /\ Quiet

\* The wall clock passes midnight.
Tick ==
    /\ now # LastDay
    /\ now' = NextDay(now)
    /\ last' = [Idle EXCEPT !.op = "tick"]
    /\ UNCHANGED <<jail, history, release, scraped, dash, rec, start, parse>>

\* The release dates after a scan: each admitted row sets that of its field
\* (the later row of a code wins); every other field keeps its own.
RECURSIVE Released(_, _)
Released(rel, seen) ==
    IF seen = <<>> THEN rel
    ELSE LET f == WriteCell(Head(seen).code)
         IN  IF Head(seen).admitted
             THEN Released([c \in (DOMAIN rel) \cup {f} |->
                                IF c = f THEN NextDay(Head(seen).end_dt.dt.date)
                                ELSE rel[c]],
                           Tail(seen))
             ELSE Released(rel, Tail(seen))

\* daily_recorder.update_data, run at time-of-day tod over the scrape B.
UpdateData(B, tod) ==
    \E res \in {ScanScrape(B, [date |-> now, tod |-> tod])},
       today_str \in {Strftime(now)} :
        /\ history' = HistoryAfter(history, res.all_data, today_str)
        /\ jail' = JailAfter(jail, res.new_jail_codes)
        /\ release' = Released(release, res.seen)
        /\ last' = [op |-> "update", res |-> res, ret |-> FALSE,
                    twice |-> DOMAIN JailAfter(jail', res.new_jail_codes),
                    replaced |-> OtherDays(history, today_str) # history]
        /\ UNCHANGED <<now, dash, rec, start, parse>>

\* dashboard.add_to_jail(input), from the form (submitted with a non-empty box)
AddToJail(input) ==
    \E r \in {add_to_jail(jail, input)} :
        /\ jail' = r.file
        /\ last' = [Idle EXCEPT !.op = "add", !.ret = r.ret]
        /\ UNCHANGED <<now, history, release, scraped, dash, rec, start, parse>>

\* dashboard.remove_from_jail(to_remove): a non-empty selection from the list
RemoveFromJail(to_remove) ==
    /\ jail' = remove_from_jail(jail, to_remove)
    /\ last' = [Idle EXCEPT !.op = "remove"]
    /\ release' = [c \in (DOMAIN release) \ {WriteCell(v) : v \in to_remove} |->
                      release[c]]
    /\ UNCHANGED <<now, history, scraped, dash, rec, start, parse>>

Selections(file) == (SUBSET DOMAIN load_jail_list(file)) \ {{}}

Next ==
    \/ Tick
    \/ \E B \in Scrapes, tod \in Daytime : UpdateData(B, tod) /\ UNCHANGED scraped
    \/ \E input \in AddInputs : AddToJail(input)
    \/ \E to_remove \in Selections(jail) : RemoveFromJail(to_remove)

Spec == Init /\ [][Next]_vars

\* The same program run at any time of day, with the scrape of the last
\* update_data remembered.
NextLogged ==
    \/ Tick
    \/ \E B \in Scrapes, tod \in AnyTime : UpdateData(B, tod) /\ scraped' = B
    \/ \E input \in AddInputs : AddToJail(input)
    \/ \E to_remove \in Selections(jail) : RemoveFromJail(to_remove)

SpecLogged == Init /\ [][NextLogged]_vars

\* ------------------------------------------------- two writers at once
\* The dashboard (a streamlit process) and daily_recorder (a scheduled script)
\* are separate processes over the same jail_list.csv, with no lock: each
\* reads the file, computes, and writes it back.
StartJails == {EmptyBag, SetToBag({<<"1">>})}

ConcInputs == AddInputs \cup {<<"2">>}

Requests(file) ==
    {[DashIdle EXCEPT !.pc = "start", !.kind = "add", !.input = i] : i \in ConcInputs}
    \cup {[DashIdle EXCEPT !.pc = "start", !.kind = "remove", !.sel = x] :
             x \in Selections(file)}

ConcInit ==
    /\ now = FirstDay
    /\ jail \in StartJails
    /\ start = jail
    /\ history = <<>>
    /\ last = Idle
    /\ release = <<>>
    /\ scraped = NoScrape
    /\ parse = ParseIdle
    /\ dash \in Requests(jail)
    /\ rec \in {[RecIdle EXCEPT !.pc = "start", !.B = B, !.tod = tod] :
                   B \in Scrapes, tod \in Daytime}

\* add_to_jail line 36, remove_from_jail line 44: current_list = load_jail_list()
DashLoad ==
    /\ dash.pc = "start"
    /\ dash' = [dash EXCEPT !.pc = "loaded", !.list = load_jail_list(jail)]
    /\ UNCHANGED <<now, jail, history, last, release, scraped, rec, start, parse>>

\* add_to_jail lines 37-41, remove_from_jail lines 45-46
DashSave ==
    /\ dash.pc = "loaded"
    /\ IF dash.kind = "add"
       THEN \E r \in {add_step(dash.list, dash.input)} :
                /\ jail' = IF r.save THEN save_jail_list(r.list) ELSE jail
                /\ dash' = [dash EXCEPT !.pc = "done", !.ret = r.save]
       ELSE /\ jail' = save_jail_list(remove_step(dash.list, dash.sel))
            /\ dash' = [dash EXCEPT !.pc = "done"]
    /\ UNCHANGED <<now, history, last, release, scraped, rec, start, parse>>

\* update_data lines 23-63: the scrape and the history file
RecScrape ==
    /\ rec.pc = "start"
    /\ \E res \in {ScanScrape(rec.B, [date |-> now, tod |-> rec.tod])} :
           /\ history' = HistoryAfter(history, res.all_data, Strftime(now))
           /\ rec' = [rec EXCEPT !.pc = "scraped", !.res = res]
    /\ UNCHANGED <<now, jail, last, release, scraped, dash, start, parse>>

\* update_data lines 66-70: existing_jail
RecLoad ==
    /\ rec.pc = "scraped"
    /\ rec' = [rec EXCEPT !.pc = "loaded", !.list = load_jail_list(jail)]
    /\ UNCHANGED <<now, jail, history, last, release, scraped, dash, start, parse>>

\* update_data lines 73-74
RecSave ==
    /\ rec.pc = "loaded"
    /\ jail' = save_jail_list(Merge(rec.list, rec.res.new_jail_codes))
    /\ rec' = [rec EXCEPT !.pc = "done"]
    /\ UNCHANGED <<now, history, last, release, scraped, dash, start, parse>>

ConcNext == DashLoad \/ DashSave \/ RecScrape \/ RecLoad \/ RecSave

SpecConc == ConcInit /\ [][ConcNext]_vars

\* ------------------------------------------------------ the parsers alone
RocYears == 113..(112 + NumYears)

ParseText(p) == (IF p.lead THEN Lead ELSE <<>>) \o RocText(p.y, p.m, p.d, p.pad)

ParseInit ==
    /\ now = FirstDay
    /\ jail = EmptyBag
    /\ history = <<>>
    /\ last = Idle
    /\ release = <<>>
    /\ scraped = NoScrape
    /\ dash = DashIdle
    /\ rec = RecIdle
    /\ start = EmptyBag
    /\ parse \in {[ParseIdle EXCEPT !.pc = "call", !.y = y, !.m = m, !.d = d,
                                    !.pad = pad, !.lead = lead, !.tod = tod] :
                     y \in RocYears, m \in 1..13, d \in 1..32,
                     pad \in BOOLEAN, lead \in BOOLEAN, tod \in AnyTime}

\* Both parse_disposal_date functions on the text, at now.
Parse ==
    /\ parse.pc = "call"
    /\ parse' = [parse EXCEPT
                   !.pc = "done",
                   !.rec = parse_disposal_date(ParseText(parse)),
                   !.dash = dashboard_parse_disposal_date(
                                ParseText(parse), [date |-> now, tod |-> parse.tod])]
    /\ UNCHANGED <<now, jail, history, last, release, scraped, dash, rec, start>>

SpecParse == ParseInit /\ [][Parse]_vars

\* ---------------------------------------------------------------- claims
Today(r) == r.date = Strftime(now)
Earlier(r) == r.date # Strftime(now)

\* C1: after a pass of update_data on date t, every field of the watch-list
\* whose release date is known has a release date strictly after t.
C1_ExpiryMonotonicity ==
    last.op = "update" =>
        \A c \in DOMAIN release : BagIn(c, jail) => DateLT(now, release[c])

\* C2: the watch-list file holds no code twice.
C2_AtMostOnePerCode == \A c \in DOMAIN jail : jail[c] = 1

\* C3: once update_data has run, running it again on the same scrape at the
\* same time leaves the same set of codes in the watch-list.
C3_Idempotent == last.op = "update" => last.twice = DOMAIN jail

C3_Witness ==
    /\ last.op = "update"
    /\ last.res.new_jail_codes # <<>>
    /\ Cardinality(DOMAIN jail) >= 2

\* C4: update_data admits a disposal row exactly when its release date, the
\* day after its end date, is strictly after today.
C4_AdmissionBoundary ==
    last.op = "update" =>
        \A i \in 1..Len(last.res.seen) :
            LET r == last.res.seen[i]
            IN  r.admitted <=>
                    (r.end_dt.some /\ DateLT(now, NextDay(r.end_dt.dt.date)))

\* C5: a pass of update_data that hit a fault leaves both files as they were.
C5_AllOrNothing ==
    [][(last'.op = "update" /\ last'.res.raised)
          => (jail' = jail /\ history' = history)]_vars

\* The history records of every row of a scrape whose table has the columns
\* the loop reads: what a scan that skips a faulty row alone collects.
RECURSIVE SoundRows(_, _, _)
SoundRows(kind, tables, today) ==
    IF tables = <<>> THEN <<>>
    ELSE (IF Head(tables).ncols >= (IF kind = ATTENTION THEN 2 ELSE 6)
          THEN [i \in 1..Len(Head(tables).rows) |->
                   [date |-> Strftime(today),
                    code |-> DigitsOf(Head(tables).rows[i].code),
                    status |-> kind]]
          ELSE <<>>)
         \o SoundRows(kind, Tail(tables), today)

\* C6: when both pages load, a row that raises is skipped alone: every row
\* that can be processed reaches the history records of the run.
C6_RowFaultIsolation ==
    (last.op = "update" /\ scraped.att.ok /\ scraped.disp.ok) =>
        last.res.all_data =
            SoundRows(ATTENTION, scraped.att.tables, now)
                \o SoundRows(DISPOSAL, scraped.disp.tables, now)

\* C7: every code in the watch-list file is a non-empty string of digits.
C7_CodesValid ==
    \A c \in DOMAIN jail : c # <<>> /\ (\A i \in 1..Len(c) : IsDigit(c[i]))

\* C10: a pass of update_data that scraped rows leaves, as the history rows of
\* today, exactly those rows, and the rows of other dates as they were; a
\* pass that scraped none leaves the history as it was.
C10_HistoryReplacedPerDay ==
    [][last'.op = "update" =>
          IF last'.res.all_data # <<>>
          THEN /\ SelectSeq(history', Today) = last'.res.all_data
               /\ SelectSeq(history', Earlier) = SelectSeq(history, Earlier)
          ELSE history' = history]_vars

C10_Witness ==
    /\ last.op = "update"
    /\ last.replaced
    /\ last.res.all_data # <<>>
    /\ SelectSeq(history, Earlier) # <<>>

\* The ROC date of a parser call is a date of the calendar.
ValidRoc == parse.y \in 100..999 /\ ValidDate(parse.y + 1911, parse.m, parse.d)

\* C8 as stated: for a valid ROC date the parser yields the day after
\* Gregorian(y + 1911, m, d).
C8_ReleaseDate ==
    (parse.pc = "done" /\ ValidRoc) =>
        /\ parse.rec.some
        /\ parse.rec.dt.date = NextDay(<<parse.y + 1911, parse.m, parse.d>>)

\* C8, amended: for a valid ROC date both parsers yield Gregorian(y + 1911, m, d)
\* itself, daily_recorder's as a datetime at midnight and the dashboard's as
\* YYYY-MM-DD text.
C8_EndDate ==
    (parse.pc = "done" /\ ValidRoc) =>
        /\ parse.rec = [some |-> TRUE,
                        dt |-> [date |-> <<parse.y + 1911, parse.m, parse.d>>, tod |-> 0]]
        /\ parse.dash.some
        /\ parse.dash.text =
               Pad(parse.y + 1911, 4) \o <<"-">> \o Pad(parse.m, 2) \o <<"-">> \o Pad(parse.d, 2)

C8_Witness ==
    /\ parse.pc = "done"
    /\ ValidRoc
    /\ parse.m = 2 /\ parse.d = 29
    /\ parse.lead /\ ~parse.pad
    /\ parse.rec.some

\* The watch-list file after the dashboard's request alone, and after the
\* recorder's run alone.
DashOp(file) ==
    IF dash.kind = "add" THEN add_to_jail(file, dash.input).file
    ELSE remove_from_jail(file, dash.sel)

RecOp(file) == JailAfter(file, rec.res.new_jail_codes)

\* C9: when a dashboard request and a recorder run have both finished, the
\* watch-list is what one of the two serial orders leaves.
C9_Serializable ==
    (dash.pc = "done" /\ rec.pc = "done") =>
        jail \in {RecOp(DashOp(start)), DashOp(RecOp(start))}

====
